---- MODULE Spec2Model ----
(***************************************************************************)
(* Model of src/src/__main__.py: one run of the Blink video harvester.     *)
(* The run is a single coroutine; pc is its position.  Every awaited call  *)
(* into blinkpy is a step whose outcome the remote side decides:           *)
(*   "ok"     the call returned a success result,                          *)
(*   "failed" the call returned, and its result reports a failure          *)
(*            (False / None); the source never reads these results,        *)
(*   "raised" the call raised an exception.                                *)
(* An exception leaves `async with ClientSession()` (line 72), which       *)
(* closes the client, and ends the run.                                    *)
(***************************************************************************)
EXTENDS Integers, Sequences, FiniteSets, TLC

\* Bounds of the model.
MaxClips == 2
MaxNetworks == 2

Clips == 1..MaxClips            \* a clip is identified by its creation time
EnvValues == {"None", "", "set"} \* os.getenv: unset, empty, or a value
UidValues == {"None", "", "tokA"}
Tokens == {"tokA", "tokB"}      \* tokens a challenge can yield
GenUid == "generated"           \* uid the auth object holds before any challenge
\* The command lines of the runs: no option, or both options given.
CommandLines == {[target_dir |-> "absent", since |-> "absent"],
                 [target_dir |-> "/data", since |-> "2024-01-01"]}

VARIABLES
    pc,             \* position of main()/init()
    username,       \* BLINK_USERNAME
    password,       \* BLINK_PASSWORD
    uid,            \* BLINK_UID
    accountNetworks,\* networks of the remote account
    target_dir,     \* args.target_dir, first parameter of main()
    since,          \* args.since, second parameter of main()
    remote,         \* clips stored on the remote service
    clientOpen,     \* the aiohttp ClientSession is open
    login_data,     \* dict built by init()
    no_prompt,      \* Auth(no_prompt=...)
    authenticated,  \* the remote service accepted the login
    auth_uid,       \* blink.auth.login_attributes['uid']
    challengeToken, \* token yielded by the last challenge ("None": none)
    returned,       \* init() returned blink to main()
    exposedUid,     \* uid logged by line 66 ("None": nothing logged)
    networks,       \* blink.networks (names, in order)
    my_sync,        \* name of the selected sync module (0: none)
    manifest,       \* my_sync._local_storage["manifest"], ascending
    local_storage,  \* my_sync.local_storage
    manifest_ready, \* my_sync.local_storage_manifest_ready
    reported,       \* what lines 84-88 printed
    new_vid,        \* result of check_new_videos
    items,          \* the iterator of line 96: items still to visit
    item,           \* loop variable (0: none)
    now,            \* clock, in seconds
    calls,          \* history: every call made to a collaborator
    inFlight,       \* number of remote calls begun and not yet completed
    outcome         \* "running", "ok", or the exception that ended the run

vars == <<pc, username, password, uid, accountNetworks, target_dir, since,
          inFlight, remote, clientOpen,
          login_data, no_prompt, authenticated, auth_uid, challengeToken,
          returned, exposedUid, networks, my_sync, manifest, local_storage,
          manifest_ready, reported, new_vid, items, item, now, calls, outcome>>

envVars == <<username, password, uid, accountNetworks, target_dir, since>>
authVars == <<login_data, no_prompt, authenticated, auth_uid, challengeToken,
              returned, exposedUid, networks>>
syncVars == <<my_sync, manifest, local_storage, manifest_ready, reported, new_vid>>
loopVars == <<items, item>>

----------------------------------------------------------------------------
\* Helpers

\* Python truthiness of an os.getenv result: `if not username`.
Truthy_NoneOnly(v) == v # "None"
Truthy(v) == v # "None" /\ v # ""

\* An ordered insert that keeps an element already present (a sorted list).
RECURSIVE SortedAdd_KeepDuplicate(_, _)
SortedAdd_KeepDuplicate(s, x) ==
    IF s = <<>> THEN <<x>>
    ELSE IF x <= Head(s) THEN <<x>> \o s
    ELSE <<Head(s)>> \o SortedAdd_KeepDuplicate(Tail(s), x)

\* SortedSet.add: insert in ascending order, no-op when already present.
RECURSIVE SortedAdd(_, _)
SortedAdd(s, x) ==
    IF s = <<>> THEN <<x>>
    ELSE IF Head(s) = x THEN s
    ELSE IF x < Head(s) THEN <<x>> \o s
    ELSE <<Head(s)>> \o SortedAdd(Tail(s), x)

RECURSIVE SortedAddAll(_, _)
SortedAddAll(s, S) ==
    IF S = {} THEN s
    ELSE LET x == CHOOSE y \in S : TRUE
         IN SortedAddAll(SortedAdd(s, x), S \ {x})

\* reversed(seq)
Reversed_Forward(s) == s
Reversed(s) == [i \in 1..Len(s) |-> s[Len(s) + 1 - i]]

\* list(blink.networks)[0]
FirstNetwork_Last(nets) == nets[Len(nets)]
FirstNetwork(nets) == nets[1]

\* SortedSet(): the value assigned over the module's manifest
NewManifest_Kept(old) == old
NewManifest(old) == <<>>

\* line 95: the manifest the loop iterates; new_vid takes no part in it
LoopManifest_Gated(m, nv) == IF nv THEN m ELSE <<>>
LoopManifest(m, nv) == m

\* the iterator after it yielded its next item
NextItems_SkipOne(its) == IF Len(its) >= 2 THEN Tail(Tail(its)) ELSE <<>>
NextItems(its) == Tail(its)

\* "uid" in login_data
NoPrompt_Never(ld) == FALSE
NoPrompt(ld) == "uid" \in DOMAIN ld

\* ClientSession.__aexit__: the context manager closes the client.
ExitClient_Leak(open) == open
ExitClient(open) == FALSE

\* asyncio.sleep(2): the clock after the sleep
SleepSeconds == 2
Slept_Skipped(t) == t
Slept(t) == t + SleepSeconds

\* lines 113-118: --target-dir, default Path("./downloads")
ParseTargetDir(argv) ==
    IF argv.target_dir = "absent" THEN "./downloads" ELSE argv.target_dir

\* lines 119-123: --since, no default (None)
ParseSince(argv) ==
    IF argv.since = "absent" THEN "None" ELSE argv.since

\* `await call(...)`: main() is suspended until the call it began has
\* completed, so of the n calls then in flight one is over when it resumes.
Awaited_Detached(n) == n
Awaited(n) == n - 1

\* line 94 and line 101: the directory of the path given to download_video.
\* It is the literal "Videos"; the target_dir parameter is not used.
DownloadDir(target) == "Videos"

\* line 83: the lower bound given to the enumeration.  refresh() is called
\* without arguments; the since parameter is not used.
RefreshSince(bound) == "None"

\* The record of one call: what was called, for which clip and with which
\* argument, its outcome, when, and how many other calls were in flight.
Call(op, clip, res) ==
    [op |-> op, clip |-> clip, res |-> res, t |-> now,
     arg |-> CASE op = "download" -> DownloadDir(target_dir)
               [] op = "refresh" -> RefreshSince(since)
               [] OTHER -> "None",
     concurrent |-> inFlight]

\* An exception propagates out of main(): the context manager of line 72
\* runs and the run ends.
Raise(exc) ==
    /\ pc' = "done"
    /\ outcome' = exc
    /\ clientOpen' = ExitClient(clientOpen)

----------------------------------------------------------------------------
Init ==
    /\ pc = "main"
    /\ username \in EnvValues
    /\ password \in EnvValues
    /\ uid \in UidValues
    /\ accountNetworks \in {[i \in 1..n |-> i] : n \in 0..MaxNetworks}
    /\ \E argv \in CommandLines :
          /\ target_dir = ParseTargetDir(argv)
          /\ since = ParseSince(argv)
    /\ inFlight = 0
    /\ remote \in SUBSET Clips
    /\ clientOpen = FALSE
    /\ login_data = <<>>
    /\ no_prompt = FALSE
    /\ authenticated = FALSE
    /\ auth_uid = "None"
    /\ challengeToken = "None"
    /\ returned = FALSE
    /\ exposedUid = "None"
    /\ networks = <<>>
    /\ my_sync = 0
    /\ manifest = <<>>
    /\ local_storage = FALSE
    /\ manifest_ready = FALSE
    /\ reported = "nothing"
    /\ new_vid = FALSE
    /\ items = <<>>
    /\ item = 0
    /\ now = 0
    /\ calls = <<>>
    /\ outcome = "running"

\* line 72: async with ClientSession() as session
OpenClient ==
    /\ pc = "main"
    /\ clientOpen' = TRUE
    /\ pc' = "init_username"
    /\ UNCHANGED <<envVars, remote, authVars, syncVars, loopVars, now, calls, inFlight, outcome>>

\* lines 28-30
CheckUsername ==
    /\ pc = "init_username"
    /\ IF Truthy(username)
       THEN pc' = "init_password" /\ UNCHANGED <<clientOpen, outcome>>
       ELSE Raise("ValueError")
    /\ UNCHANGED <<envVars, remote, authVars, syncVars, loopVars, now, calls, inFlight>>

\* lines 32-34
CheckPassword ==
    /\ pc = "init_password"
    /\ IF Truthy(password)
       THEN pc' = "init_login_data" /\ UNCHANGED <<clientOpen, outcome>>
       ELSE Raise("ValueError")
    /\ UNCHANGED <<envVars, remote, authVars, syncVars, loopVars, now, calls, inFlight>>

\* lines 36-62: login_data, Blink(session), Auth(login_data, no_prompt)
BuildLogin ==
    /\ pc = "init_login_data"
    /\ LET base == [username |-> username, password |-> password]
           ld == IF Truthy(uid)
                 THEN [username |-> username, password |-> password,
                       uid |-> uid, reauth |-> "False"]
                 ELSE base
       IN /\ login_data' = ld
          /\ no_prompt' = NoPrompt(ld)
          /\ auth_uid' = IF "uid" \in DOMAIN ld THEN ld.uid ELSE GenUid
    /\ pc' = "start"
    /\ UNCHANGED <<envVars, remote, clientOpen, authenticated, challengeToken,
                   returned, exposedUid, networks, syncVars, loopVars, now,
                   calls, inFlight, outcome>>

\* What a successful blink.start() leaves behind: the account's networks are
\* known to the session, and the sync module may already hold a manifest,
\* which may list clips that are no longer on the remote service.
PostVerify ==
    /\ authenticated' = TRUE
    /\ networks' = accountNetworks
    /\ \E cached \in SUBSET Clips : manifest' = SortedAddAll(<<>>, cached)

\* line 64, `await blink.start()`: the login request.  Its result is
\* discarded, so a start() that returns False lets init() go on.
StartAuth ==
    /\ pc = "start"
    /\ \E res \in {"ok", "failed", "raised"} :
        /\ calls' = Append(calls, Call("auth", 0, res))
        /\ inFlight' = Awaited(inFlight + 1)
        /\ CASE res = "ok" /\ no_prompt ->
                  /\ PostVerify
                  /\ pc' = "init_log"
                  /\ UNCHANGED <<clientOpen, outcome>>
             [] res = "ok" /\ ~no_prompt ->
                  /\ pc' = "challenge"
                  /\ UNCHANGED <<authenticated, networks, manifest, clientOpen, outcome>>
             [] res = "failed" ->
                  /\ pc' = "init_log"
                  /\ UNCHANGED <<authenticated, networks, manifest, clientOpen, outcome>>
             [] res = "raised" ->
                  /\ Raise("CollaboratorError")
                  /\ UNCHANGED <<authenticated, networks, manifest>>
    /\ UNCHANGED <<envVars, remote, login_data, no_prompt, auth_uid, challengeToken,
                   returned, exposedUid, my_sync, local_storage, manifest_ready,
                   reported, new_vid, loopVars, now>>

\* line 64, still inside blink.start(): the secondary-factor challenge, which
\* start() runs when the Auth object was built with no_prompt=False.
Challenge ==
    /\ pc = "challenge"
    /\ \E res \in {"ok", "failed", "raised"} :
        /\ calls' = Append(calls, Call("challenge", 0, res))
        /\ inFlight' = Awaited(inFlight + 1)
        /\ CASE res = "ok" ->
                  /\ \E tk \in Tokens : challengeToken' = tk /\ auth_uid' = tk
                  /\ PostVerify
                  /\ pc' = "init_log"
                  /\ UNCHANGED <<clientOpen, outcome>>
             [] res = "failed" ->
                  /\ pc' = "init_log"
                  /\ UNCHANGED <<challengeToken, auth_uid, authenticated, networks,
                                 manifest, clientOpen, outcome>>
             [] res = "raised" ->
                  /\ Raise("CollaboratorError")
                  /\ UNCHANGED <<challengeToken, auth_uid, authenticated, networks,
                                 manifest>>
    /\ UNCHANGED <<envVars, remote, login_data, no_prompt, returned, exposedUid,
                   my_sync, local_storage, manifest_ready, reported, new_vid,
                   loopVars, now>>

\* lines 66-68: log the uid in use and return blink to main()
LogUid ==
    /\ pc = "init_log"
    /\ exposedUid' = auth_uid
    /\ returned' = TRUE
    /\ pc' = "resolve"
    /\ UNCHANGED <<envVars, remote, clientOpen, login_data, no_prompt, authenticated,
                   auth_uid, challengeToken, networks, syncVars, loopVars, now,
                   calls, inFlight, outcome>>

\* lines 75-80: blink.sync[blink.networks[list(blink.networks)[0]]["name"]]
Resolve ==
    /\ pc = "resolve"
    /\ IF networks = <<>>
       THEN /\ Raise("IndexError")
            /\ UNCHANGED my_sync
       ELSE /\ my_sync' = FirstNetwork(networks)
            /\ pc' = "reset_manifest"
            /\ UNCHANGED <<clientOpen, outcome>>
    /\ UNCHANGED <<envVars, remote, authVars, manifest, local_storage, manifest_ready,
                   reported, new_vid, loopVars, now, calls, inFlight>>

\* line 82: my_sync._local_storage["manifest"] = SortedSet()
ResetManifest ==
    /\ pc = "reset_manifest"
    /\ manifest' = NewManifest(manifest)
    /\ pc' = "refresh"
    /\ UNCHANGED <<envVars, remote, clientOpen, authVars, my_sync, local_storage,
                   manifest_ready, reported, new_vid, loopVars, now, calls, inFlight, outcome>>

\* line 83: await my_sync.refresh().  The remote service enumerates clips
\* into the manifest; a catalog that is not ready may be partly enumerated.
Refresh ==
    /\ pc = "refresh"
    /\ \E res \in {"ok", "raised"} :
        /\ calls' = Append(calls, Call("refresh", 0, res))
        /\ inFlight' = Awaited(inFlight + 1)
        /\ IF res = "ok"
           THEN /\ \E ls \in BOOLEAN, rdy \in BOOLEAN, enum \in SUBSET remote :
                    /\ ls /\ rdy => enum = remote
                    /\ ~ls => enum = {} /\ ~rdy
                    /\ local_storage' = ls
                    /\ manifest_ready' = rdy
                    /\ manifest' = SortedAddAll(manifest, enum)
                /\ pc' = "report_ready"
                /\ UNCHANGED <<clientOpen, outcome>>
           ELSE /\ Raise("CollaboratorError")
                /\ UNCHANGED <<local_storage, manifest_ready, manifest>>
    /\ UNCHANGED <<envVars, remote, authVars, my_sync, reported, new_vid, loopVars, now>>

\* lines 84-90: print whether the manifest is ready
ReportReady ==
    /\ pc = "report_ready"
    /\ reported' = IF local_storage /\ manifest_ready THEN "ready" ELSE "not ready"
    /\ pc' = "check_new_videos"
    /\ UNCHANGED <<envVars, remote, clientOpen, authVars, my_sync, manifest,
                   local_storage, manifest_ready, new_vid, loopVars, now, calls, inFlight, outcome>>

\* lines 91-92: new_vid = await my_sync.check_new_videos()
CheckNewVideos ==
    /\ pc = "check_new_videos"
    /\ \E res \in {"ok", "raised"} :
        /\ calls' = Append(calls, Call("check_new_videos", 0, res))
        /\ inFlight' = Awaited(inFlight + 1)
        /\ IF res = "ok"
           THEN /\ new_vid' \in BOOLEAN
                /\ pc' = "enter_loop"
                /\ UNCHANGED <<clientOpen, outcome>>
           ELSE /\ Raise("CollaboratorError")
                /\ UNCHANGED new_vid
    /\ UNCHANGED <<envVars, remote, authVars, my_sync, manifest, local_storage,
                   manifest_ready, reported, loopVars, now>>

\* lines 94-96: manifest = ...; iter(reversed(manifest))
EnterLoop ==
    /\ pc = "enter_loop"
    /\ items' = Reversed(LoopManifest(manifest, new_vid))
    /\ pc' = "loop"
    /\ UNCHANGED <<envVars, remote, clientOpen, authVars, syncVars, item, now,
                   calls, inFlight, outcome>>

\* line 96: next item of the for loop, or leave the loop
LoopNext ==
    /\ pc = "loop"
    /\ IF items = <<>>
       THEN /\ pc' = "close"
            /\ UNCHANGED loopVars
       ELSE /\ item' = Head(items)
            /\ items' = NextItems(items)
            /\ pc' = "prepare"
    /\ UNCHANGED <<envVars, remote, clientOpen, authVars, syncVars, now, calls, inFlight, outcome>>

\* One awaited step of the loop body.  The awaited value is discarded
\* (lines 97, 99-103), so a step that returns a failure result is followed
\* by the next statement like a step that succeeded.
HarvestStep(here, op, next) ==
    /\ pc = here
    /\ \E res \in {"ok", "failed", "raised"} :
        /\ calls' = Append(calls, Call(op, item, res))
        /\ inFlight' = Awaited(inFlight + 1)
        /\ remote' = IF op = "delete" /\ res = "ok" THEN remote \ {item} ELSE remote
        /\ IF res = "raised"
           THEN Raise("CollaboratorError")
           ELSE pc' = next /\ UNCHANGED <<clientOpen, outcome>>
    /\ UNCHANGED <<envVars, authVars, syncVars, loopVars, now>>

\* line 97: await item.prepare_download(blink)
Prepare_ThenDelete == HarvestStep("prepare", "prepare", "delete")
Prepare == HarvestStep("prepare", "prepare", "download")

\* lines 98-102: await item.download_video(blink, path)
Download == HarvestStep("download", "download", "delete")

\* line 103: await item.delete_video(blink)
Delete == HarvestStep("delete", "delete", "sleep")

\* line 104: await asyncio.sleep(2).  Only the sleep advances the clock:
\* the remote calls are taken to last no time at all, the least they can.
Sleep ==
    /\ pc = "sleep"
    /\ now' = Slept(now)
    /\ pc' = "loop"
    /\ UNCHANGED <<envVars, remote, clientOpen, authVars, syncVars, loopVars,
                   calls, inFlight, outcome>>

\* line 105 and the normal exit of the `async with` block of line 72
Close ==
    /\ pc = "close"
    /\ clientOpen' = ExitClient(FALSE)
    /\ pc' = "done"
    /\ outcome' = "ok"
    /\ UNCHANGED <<envVars, remote, authVars, syncVars, loopVars, now, calls, inFlight>>

Next ==
    \/ OpenClient
    \/ CheckUsername
    \/ CheckPassword
    \/ BuildLogin
    \/ StartAuth
    \/ Challenge
    \/ LogUid
    \/ Resolve
    \/ ResetManifest
    \/ Refresh
    \/ ReportReady
    \/ CheckNewVideos
    \/ EnterLoop
    \/ LoopNext
    \/ Prepare
    \/ Download
    \/ Delete
    \/ Sleep
    \/ Close

Spec == Init /\ [][Next]_vars

\* The event loop runs the coroutine whenever it can take a step.
FairSpec == Spec /\ WF_vars(Next)

----------------------------------------------------------------------------
TypeOK ==
    /\ pc \in {"main", "init_username", "init_password", "init_login_data",
               "start", "challenge", "init_log", "resolve", "reset_manifest",
               "refresh", "report_ready", "check_new_videos", "enter_loop",
               "loop", "prepare", "download", "delete", "sleep", "close", "done"}
    /\ remote \subseteq Clips
    /\ clientOpen \in BOOLEAN
    /\ now \in 0..(SleepSeconds * MaxClips)
    /\ outcome \in {"running", "ok", "ValueError", "IndexError", "CollaboratorError"}

----------------------------------------------------------------------------
\* Properties

Idx == 1..Len(calls)
HarvestOps == {"prepare", "download", "delete"}
Missing(v) == v \in {"None", ""}
CountCalls(op) == Cardinality({j \in Idx : calls[j].op = op})

\* C1: delete is requested for a clip only after that clip's download
\* succeeded; a clip whose download failed, however the failure was reported,
\* is never deleted and stays on the remote service.
C1_DeleteOnlyAfterDownloadOk ==
    /\ \A j \in Idx : calls[j].op = "delete" =>
          \E i \in 1..(j - 1) : /\ calls[i].op = "download"
                                /\ calls[i].clip = calls[j].clip
                                /\ calls[i].res = "ok"
    /\ \A i \in Idx : calls[i].op = "download" /\ calls[i].res # "ok" =>
          /\ calls[i].clip \in remote
          /\ \A j \in Idx : ~(calls[j].op = "delete" /\ calls[j].clip = calls[i].clip)

\* C2 (as claimed): clips are harvested in ascending creation order, oldest
\* first: no step of a clip comes after a step of a younger clip.
C2_OldestFirst ==
    \A i \in Idx, j \in Idx :
        (i < j /\ calls[i].op \in HarvestOps /\ calls[j].op \in HarvestOps)
            => calls[i].clip <= calls[j].clip

\* C2 (amended): clips are harvested in descending creation order, newest
\* first: no step of a clip comes after a step of an older clip, and when a
\* clip is prepared every younger clip of the manifest was prepared before it.
C2_NewestFirst ==
    /\ \A i \in Idx, j \in Idx :
          (i < j /\ calls[i].op \in HarvestOps /\ calls[j].op \in HarvestOps)
              => calls[i].clip >= calls[j].clip
    /\ \A j \in Idx : calls[j].op = "prepare" =>
          \A k \in 1..Len(manifest) : manifest[k] > calls[j].clip =>
              \E i \in 1..(j - 1) : calls[i].op = "prepare" /\ calls[i].clip = manifest[k]

\* A finished run harvested at least two clips with distinct creation times.
C2_Witness ==
    /\ pc = "done"
    /\ outcome = "ok"
    /\ Cardinality({calls[j].clip : j \in {k \in Idx : calls[k].op = "delete"}}) >= 2

\* C3: when the manifest is reported as not ready, the run issues no
\* prepare, download or delete.
C3_NotReadyNoHarvest ==
    reported = "not ready" => \A j \in Idx : calls[j].op \notin HarvestOps

\* C4: with the username or the password missing or empty, the run fails
\* with the configuration error before any call to the remote service, and
\* init() never returns a session.
C4_MissingCredentialNoNetwork ==
    (Missing(username) \/ Missing(password)) =>
        /\ calls = <<>>
        /\ ~returned
        /\ pc \notin {"start", "challenge", "init_log"}
        /\ pc = "done" => outcome = "ValueError"

\* A run with a username and an empty password has ended.
C4_Witness ==
    /\ pc = "done"
    /\ username = "set"
    /\ password = ""
    /\ outcome = "ValueError"

\* C5: with a session token supplied, the challenge is never invoked; the
\* authentication is attempted at most once, a failed attempt is followed by
\* no other call, and the run then never ends normally.
C5_TokenNeverChallenges ==
    ~Missing(uid) =>
        /\ pc # "challenge"
        /\ CountCalls("challenge") = 0
        /\ CountCalls("auth") <= 1
        /\ \A j \in Idx : calls[j].op = "auth" /\ calls[j].res # "ok" =>
              /\ j = Len(calls)
              /\ outcome # "ok"
              /\ pc = "done" => outcome \in {"IndexError", "CollaboratorError"}

\* A run with a token whose authentication was rejected has ended.
C5_Witness ==
    /\ pc = "done"
    /\ uid = "tokA"
    /\ \E j \in Idx : calls[j].op = "auth" /\ calls[j].res = "failed"

\* C6: without a session token, when init() returns the challenge has been
\* invoked exactly once and the uid it exposes is the token the challenge
\* yielded.
C6_NoTokenChallengeOnce ==
    (Missing(uid) /\ returned) =>
        /\ CountCalls("challenge") = 1
        /\ exposedUid = challengeToken

\* C7: when the remote service rejects the authentication, init() returns no
\* session and nothing downstream is done with it: the rejected call is the
\* last call and the run is not at or past module resolution.
C7_RejectedAuthNoSession ==
    (\E j \in Idx : calls[j].op \in {"auth", "challenge"} /\ calls[j].res # "ok") =>
        /\ ~returned
        /\ my_sync = 0
        /\ pc \notin {"resolve", "reset_manifest", "refresh"}
        /\ calls[Len(calls)].op \in {"auth", "challenge"}

\* C8: a failed prepare, download or delete ends the run: it is the last
\* call made, and the run is over with an error.
C8_FailureEndsRun ==
    \A j \in Idx : calls[j].op \in HarvestOps /\ calls[j].res # "ok" =>
        /\ j = Len(calls)
        /\ pc = "done"
        /\ outcome \notin {"running", "ok"}

\* C9: between the delete of a clip and the prepare of the next clip at
\* least 2 seconds pass.
C9_PacingBetweenClips ==
    \A i \in Idx, j \in Idx :
        (i < j /\ calls[i].op = "delete" /\ calls[j].op = "prepare")
            => calls[j].t - calls[i].t >= 2

\* The prepare of a clip directly follows the delete of the previous clip.
C9_Witness ==
    \E j \in Idx : /\ j > 1
                   /\ calls[j].op = "prepare"
                   /\ calls[j - 1].op = "delete"
                   /\ calls[j - 1].clip # calls[j].clip

\* C10: no finished run, normal or failed, leaves the network client open,
\* and every run that got past line 72 and is not finished holds it open.
C10_ClientReleasedOnExit ==
    /\ pc = "done" => ~clientOpen
    /\ pc \notin {"main", "done"} => clientOpen

\* A run has ended because a download raised.
C10_Witness ==
    /\ pc = "done"
    /\ outcome = "CollaboratorError"
    /\ calls # <<>>
    /\ calls[Len(calls)].op = "download"
    /\ calls[Len(calls)].res = "raised"

\* C11: no two remote calls are in flight together: when a call is begun
\* no other call is in flight, and between two steps of the run none is.
C11_OneCallInFlight ==
    /\ inFlight = 0
    /\ \A j \in Idx : calls[j].concurrent = 0

\* Authentication, refresh, the new-videos check and a whole clip were called.
C11_Witness ==
    /\ Len(calls) >= 6
    /\ calls[Len(calls)].op = "delete"

\* C12: once a clip has been deleted it is no longer in the manifest, and
\* after a run whose calls all succeeded the manifest is empty.
C12_ManifestEmptyAfterRun ==
    /\ \A j \in Idx : calls[j].op = "delete" /\ calls[j].res = "ok" =>
          \A k \in 1..Len(manifest) : manifest[k] # calls[j].clip
    /\ (pc = "done" /\ outcome = "ok" /\ \A j \in Idx : calls[j].res = "ok")
          => manifest = <<>>

C14_DownloadIntoTargetDir ==
    \A j \in Idx : calls[j].op = "download" => calls[j].arg = target_dir

\* C15: when --since is given, the refresh requests the enumeration with
\* that lower bound.
C15_SincePassedToEnumeration ==
    \A j \in Idx : (calls[j].op = "refresh" /\ since # "None") => calls[j].arg = since

Elems(q) == {q[k] : k \in 1..Len(q)}
ClipsCalled(op) == {calls[j].clip : j \in {k \in Idx : calls[k].op = op}}
CountClipCalls(op, c) == Cardinality({j \in Idx : calls[j].op = op /\ calls[j].clip = c})

\* C16: the module selected is the one of the first network of the session;
\* a session that knows no network ends the run with the error of the
\* resolution, before the manifest is reset and before any refresh,
\* new-videos check or clip operation.
C16_FirstNetworkOrFatal ==
    /\ my_sync # 0 => (networks # <<>> /\ my_sync = networks[1])
    /\ pc \in {"reset_manifest", "refresh", "report_ready", "check_new_videos",
               "enter_loop", "loop", "prepare", "download", "delete", "sleep",
               "close"} => my_sync # 0
    /\ (returned /\ networks = <<>>) =>
          /\ pc \in {"resolve", "done"}
          /\ pc = "done" => outcome = "IndexError"
          /\ \A j \in Idx : calls[j].op \in {"auth", "challenge"}

\* An authenticated session of an account without networks has ended the run.
C16_Witness ==
    /\ pc = "done"
    /\ authenticated
    /\ networks = <<>>
    /\ outcome = "IndexError"

\* C17: the first refresh starts from an empty manifest, so after it the
\* manifest lists only clips the refresh enumerated from the remote service,
\* and nothing of a manifest the handle held before.
C17_ManifestResetBeforeRefresh ==
    /\ pc = "refresh" => manifest = <<>>
    /\ pc = "report_ready" =>
          /\ Elems(manifest) \subseteq remote
          /\ (local_storage /\ manifest_ready) => Elems(manifest) = remote
          /\ ~local_storage => manifest = <<>>

\* The first refresh has enumerated a clip while another clip, which a
\* cached manifest could list, is not on the remote service.
C17_Witness ==
    /\ pc = "report_ready"
    /\ manifest # <<>>
    /\ remote # Clips

\* C18: a download directly follows the completed prepare of the same clip,
\* a delete the completed download of the same clip, and the prepare of a
\* clip the completed delete of the clip before it.
C18_PrepareDownloadDelete ==
    \A j \in Idx :
        /\ calls[j].op = "download" =>
              /\ j > 1
              /\ calls[j - 1].op = "prepare"
              /\ calls[j - 1].clip = calls[j].clip
              /\ calls[j - 1].res # "raised"
        /\ calls[j].op = "delete" =>
              /\ j > 1
              /\ calls[j - 1].op = "download"
              /\ calls[j - 1].clip = calls[j].clip
              /\ calls[j - 1].res # "raised"
        /\ (calls[j].op = "prepare" /\ j > 1 /\ calls[j - 1].op \in HarvestOps) =>
              /\ calls[j - 1].op = "delete"
              /\ calls[j - 1].clip # calls[j].clip
              /\ calls[j - 1].res # "raised"

\* The three steps of a clip have been made and the loop is at its pause.
C18_Witness ==
    /\ pc = "sleep"
    /\ Len(calls) >= 3
    /\ calls[Len(calls)].op = "delete"
    /\ calls[Len(calls)].res = "ok"

\* C19: the new-videos check leaves the manifest as it is, and whatever it
\* answers the loop visits exactly the clips of the manifest: those already
\* prepared and those still to visit make up the manifest.
C19_NewVideosAdvisory ==
    /\ [](pc \in {"loop", "close"} =>
              ClipsCalled("prepare") \cup Elems(items) = Elems(manifest))
    /\ []((pc = "done" /\ outcome = "ok") => ClipsCalled("prepare") = Elems(manifest))
    /\ [][pc = "check_new_videos" => manifest' = manifest]_vars

\* The check answered that there is no new video and the loop has visited
\* a manifest that is not empty.
C19_Witness ==
    /\ pc = "close"
    /\ new_vid = FALSE
    /\ manifest # <<>>

\* C20: the run terminates, and when it ends normally with every call
\* successful, each clip of the manifest was prepared, downloaded and deleted
\* exactly once and no other clip was touched.
C20_TerminatesHarvestingAll ==
    /\ <>(pc = "done")
    /\ []((pc = "done" /\ outcome = "ok" /\ \A j \in Idx : calls[j].res = "ok") =>
            /\ \A c \in Elems(manifest) : \A op \in HarvestOps : CountClipCalls(op, c) = 1
            /\ \A op \in HarvestOps : ClipsCalled(op) \subseteq Elems(manifest))

\* A run over a manifest of at least two clips has ended with every call
\* successful.
C20_Witness ==
    /\ pc = "done"
    /\ outcome = "ok"
    /\ Len(manifest) >= 2
    /\ \A j \in Idx : calls[j].res = "ok"

====
